---- MODULE Spec2Model ----
\* A model of emaillib (src/emaillib/emaillib.py): the SmtpServer transport
\* (connect / send / disconnect around one smtplib session handle), the
\* EasySender one-shot wrapper and the Message constructor they use.
\*
\* Python strings are modelled as sequences of one-character strings, so that
\* splitting, stripping, case folding and the address pattern are computed.
\* The smtplib server and the filesystem are the environment: every library
\* call either succeeds or raises, chosen by the action's inputs.
EXTENDS Integers, Sequences, FiniteSets, TLC

VARIABLES server, easy, sessions, last, guarded, made

vars == <<server, easy, sessions, last, guarded, made>>

\* ---------------------------------------------------------------- bounds

\* The number of SMTP sessions the environment lets the two transports open.
MaxSessions == 2

\* The number of to, cc and bcc entries, taken together, of the messages a
\* caller constructs directly.
MaxEntries == 3

\* The length of the texts a caller gives to the address validation.
MaxAddrLen == 6

\* ------------------------------------------------------- python values

\* A loosely typed argument: None, a str (sequence of characters) or a
\* list/tuple of str.
None == [kind |-> "none", v |-> <<>>]

Str(s) == [kind |-> "str", v |-> s]

List(l) == [kind |-> "list", v |-> l]

\* Python truthiness of such a value: None, '' and [] are falsy.
Truthy(value) == value.kind # "none" /\ Len(value.v) > 0

\* --------------------------------------------------------- the Message

\* str.strip(): leading and trailing blanks removed.
RECURSIVE LStrip(_)
LStrip(s) == IF s # <<>> /\ Head(s) = " " THEN LStrip(Tail(s)) ELSE s

RECURSIVE RStrip(_)
RStrip(s) ==
    IF s # <<>> /\ s[Len(s)] = " " THEN RStrip(SubSeq(s, 1, Len(s) - 1)) ELSE s

Strip(s) == RStrip(LStrip(s))

\* str.split(','): the pieces between the commas; one piece, possibly
\* empty, when there is no comma.
RECURSIVE SplitFrom(_, _, _)
SplitFrom(s, i, cur) ==
    IF i > Len(s) THEN <<cur>>
    ELSE IF s[i] = "," THEN <<cur>> \o SplitFrom(s, i + 1, <<>>)
    ELSE SplitFrom(s, i + 1, Append(cur, s[i]))

Split(s) == SplitFrom(s, 1, <<>>)

\* COMMASPACE.join(list)
RECURSIVE Join(_)
Join(l) ==
    IF l = <<>> THEN <<>>
    ELSE IF Len(l) = 1 THEN l[1]
    ELSE l[1] \o <<",", " ">> \o Join(Tail(l))

\* str.lower() on the letters the content values are written with.
LowerChar(c) ==
    CASE c = "T" -> "t" [] c = "E" -> "e" [] c = "X" -> "x" [] c = "H" -> "h"
      [] c = "M" -> "m" [] c = "L" -> "l" [] c = "D" -> "d" [] OTHER -> c

Lower(s) == [i \in DOMAIN s |-> LowerChar(s[i])]

Count(s, c) == Cardinality({i \in DOMAIN s : s[i] = c})

\* The addr-spec the library reads from a text without surrounding blanks:
\* the text itself, or '' when it holds more than one '@' or ends in '@'.
AddrSpec(s) ==
    IF Count(s, "@") = 0 THEN s
    ELSE IF Count(s, "@") = 1 /\ s[Len(s)] # "@" THEN s
    ELSE <<>>

\* email.utils.parseaddr(email)[1] for an address written without a display
\* name, comments, quotes or inner blanks.
ParseAddr(email) == AddrSpec(Strip(email))

\* The match as it would be with the pattern [^@]+@[^@]+, which asks for no
\* dot after the '@'.
MatchesWithoutDot(address) ==
    \E i \in DOMAIN address :
        /\ i >= 2
        /\ address[i] = "@"
        /\ \A k \in 1..(i - 1) : address[k] # "@"
        /\ i + 1 <= Len(address)
        /\ address[i + 1] # "@"

\* re.match(r'[^@]+@[^@]+\.[^@]+', address): the pattern is anchored at the
\* start only, so a prefix of the address may match.
MatchesPattern(address) ==
    \E i \in DOMAIN address :
        /\ i >= 2
        /\ address[i] = "@"
        /\ \A k \in 1..(i - 1) : address[k] # "@"
        /\ \E j \in DOMAIN address :
              /\ j >= i + 2
              /\ address[j] = "."
              /\ \A k \in (i + 1)..(j - 1) : address[k] # "@"
              /\ j + 1 <= Len(address)
              /\ address[j + 1] # "@"

\* A value or the exception raised instead of it.
Ok(v) == [ok |-> TRUE, v |-> v, err |-> "none"]

Raise(e) == [ok |-> FALSE, v |-> <<>>, err |-> e]

\* The check of Message._validate_simple on the parsed address.
CheckAddress(address) ==
    IF ~MatchesPattern(address) THEN Raise("ValueError") ELSE Ok(address)

\* Message._validate_simple
ValidateSimple(email) == CheckAddress(ParseAddr(email))

\* [entry.strip() for entry in ...]
StripEach(parts) == [i \in DOMAIN parts |-> Strip(parts[i])]

\* Message._comma_delimited_to_list: a str is split on ',' and each entry
\* stripped; a list or tuple is returned as it is.
CommaDelimitedToList(value) ==
    IF value.kind = "str" THEN StripEach(Split(value.v)) ELSE value.v

\* The list as it would be if the entries that are not valid were left out
\* instead of raising.
AddressesOf(entries) ==
    [i \in DOMAIN entries |-> ValidateSimple(entries[i]).v]

ValidateEachSkipping(recipients) ==
    Ok(AddressesOf(SelectSeq(recipients, LAMBDA e : ValidateSimple(e).ok)))

\* [self._validate_simple(recipient) for recipient in recipients]: the list
\* of the addresses, unless an entry raises.
ValidateEach(recipients) ==
    IF \E i \in DOMAIN recipients : ~ValidateSimple(recipients[i]).ok
    THEN Raise("ValueError")
    ELSE Ok([i \in DOMAIN recipients |-> ValidateSimple(recipients[i]).v])

\* Message._get_recipients
GetRecipients(value) ==
    ValidateEach(IF Truthy(value) THEN CommaDelimitedToList(value) ELSE <<>>)

\* The sender setter as it would be if, like cc, the sender could be left
\* out.
SetSenderOptional(value) ==
    IF ~Truthy(value) THEN Ok(<<>>) ELSE ValidateSimple(value.v)

\* The sender setter.
SetSender(value) ==
    IF ~Truthy(value) THEN Raise("ValueError") ELSE ValidateSimple(value.v)

\* The to setter as it would be without the check for an empty value.
SetToOptional(value) == GetRecipients(value)

\* The to setter.
SetTo(value) ==
    IF ~Truthy(value) THEN Raise("ValueError") ELSE GetRecipients(value)

\* The cc setter.
SetCc(value) == GetRecipients(value)

\* The bcc setter.
SetBcc(value) == GetRecipients(value)

\* The check of the content setter on the case-folded value.
CheckContent(lowered) ==
    IF lowered \notin {<<"t", "e", "x", "t">>, <<"h", "t", "m", "l">>}
    THEN Raise("ValueError")
    ELSE Ok(lowered)

\* The content setter as it would be without value.lower().
SetContentExact(value) == CheckContent(value)

\* The content setter.
SetContent(value) == CheckContent(Lower(value))

\* The filesystem: the files that can be read, by expanded path.
HomeDir == <<"/", "h">>

Files == (<<"/", "h", "/", "f">> :> "bytes of f") @@ (<<"g">> :> "bytes of g")

\* os.path.expanduser
ExpandUser(path) ==
    IF path # <<>> /\ path[1] = "~" /\ (Len(path) = 1 \/ path[2] = "/")
    THEN HomeDir \o Tail(path)
    ELSE path

\* os.path.basename
RECURSIVE Basename(_)
Basename(path) ==
    IF \E i \in DOMAIN path : path[i] = "/"
    THEN Basename(Tail(path))
    ELSE path

\* The loop of the attachments setter: every file is opened and read, an
\* unreadable one raises; each part carries the bytes and the base name.
ReadEach(attachments) ==
    IF \E i \in DOMAIN attachments : ExpandUser(attachments[i]) \notin DOMAIN Files
    THEN Raise("IOError")
    ELSE Ok([values |-> attachments,
             parts  |-> [i \in DOMAIN attachments |->
                           [type     |-> "application",
                            data     |-> Files[ExpandUser(attachments[i])],
                            filename |-> Basename(attachments[i])]]])

\* The attachments setter.
SetAttachments(entries) ==
    ReadEach(IF Truthy(entries) THEN CommaDelimitedToList(entries) ELSE <<>>)

\* Message._setup_message: the multipart container with the body part first,
\* the headers, then one part per attachment. Cc is set only when there is
\* a cc address; no header is made from bcc.
SetupMessage(sender, to, cc, subject, body, content, parts, date) ==
    [subtype  |-> IF content = <<"h", "t", "m", "l">> THEN "alternative" ELSE "mixed",
     preamble |-> "Multipart massage.\n",
     headers  |-> [n \in {"From", "To", "Date", "Subject"}
                           \cup (IF cc # <<>> THEN {"Cc"} ELSE {}) |->
                      CASE n = "From" -> sender
                        [] n = "To" -> Join(to)
                        [] n = "Cc" -> Join(cc)
                        [] n = "Date" -> <<date>>
                        [] n = "Subject" -> <<subject>>],
     payload  |-> <<[type     |-> IF content = <<"h", "t", "m", "l">>
                                  THEN "html" ELSE "plain",
                     data     |-> body,
                     filename |-> <<>>]>> \o parts]

\* The constructor as it would be if the bcc addresses were joined into the
\* Cc header.
AssignedBccInCc(sender, to, cc, bcc, subject, body, att, cont, date) ==
    IF ~sender.ok THEN Raise(sender.err)
    ELSE IF ~to.ok THEN Raise(to.err)
    ELSE IF ~cc.ok THEN Raise(cc.err)
    ELSE IF ~bcc.ok THEN Raise(bcc.err)
    ELSE IF ~att.ok THEN Raise(att.err)
    ELSE IF ~cont.ok THEN Raise(cont.err)
    ELSE Ok([sender      |-> sender.v,
             to          |-> to.v,
             cc          |-> cc.v,
             bcc         |-> bcc.v,
             subject     |-> subject,
             body        |-> body,
             attachments |-> att.v.values,
             content     |-> cont.v,
             message     |-> SetupMessage(sender.v, to.v, cc.v \o bcc.v,
                                          subject, body, cont.v, att.v.parts,
                                          date)])

\* The body of Message.__init__ on the results of the setters, which run in
\* the order sender, to, cc, bcc, subject, body, attachments, content: the
\* first exception leaves the constructor, so that no Message exists.
Assigned(sender, to, cc, bcc, subject, body, att, cont, date) ==
    IF ~sender.ok THEN Raise(sender.err)
    ELSE IF ~to.ok THEN Raise(to.err)
    ELSE IF ~cc.ok THEN Raise(cc.err)
    ELSE IF ~bcc.ok THEN Raise(bcc.err)
    ELSE IF ~att.ok THEN Raise(att.err)
    ELSE IF ~cont.ok THEN Raise(cont.err)
    ELSE Ok([sender      |-> sender.v,
             to          |-> to.v,
             cc          |-> cc.v,
             bcc         |-> bcc.v,
             subject     |-> subject,
             body        |-> body,
             attachments |-> att.v.values,
             content     |-> cont.v,
             message     |-> SetupMessage(sender.v, to.v, cc.v, subject, body,
                                          cont.v, att.v.parts, date)])

\* Message(sender, recipients, cc, bcc, subject, body, attachments, content)
\* with the clock reading date.
Message(f, date) ==
    Assigned(SetSender(f.sender), SetTo(f.recipients), SetCc(f.cc),
             SetBcc(f.bcc), f.subject, f.body, SetAttachments(f.attachments),
             SetContent(f.content), date)

\* The list l without the repetitions of its entries.
RECURSIVE Distinct(_)
Distinct(l) ==
    IF l = <<>> THEN <<>>
    ELSE IF \E i \in 1..(Len(l) - 1) : l[i] = l[Len(l)]
         THEN Distinct(SubSeq(l, 1, Len(l) - 1))
    ELSE Append(Distinct(SubSeq(l, 1, Len(l) - 1)), l[Len(l)])

\* recipients as it would be if every address were listed once.
RecipientsDistinct(m) == Distinct(m.to \o m.cc \o m.bcc)

\* Message.recipients
Recipients(m) == m.to \o m.cc \o m.bcc

\* Message.as_string: the rendering of the underlying message.
AsString(m) == m.message

\* ----------------------------------------------------- the arguments

\* The texts the callers pass.
Valid1 == <<"a", "@", "b", ".", "c">>

Valid2 == <<"b", "@", "b", ".", "c">>

Valid3 == <<"c", "@", "b", ".", "c">>

Invalid1 == <<"a", "@">>

Dates == {"Thu, 05 Nov 2026 16:00:00 +0000"}

\* A message that can be built, with the optional fields left out.
Plain ==
    [sender |-> Str(Valid1), recipients |-> Str(Valid2), cc |-> None,
     bcc |-> None, subject |-> "subject", body |-> "body",
     attachments |-> None, content |-> <<"t", "e", "x", "t">>]

\* A message that can be built, with every field used.
Full ==
    [sender |-> Str(Valid1), recipients |-> List(<<Valid2, Valid1>>),
     cc |-> List(<<Valid3>>), bcc |-> Str(Valid1 \o <<",">> \o Valid3),
     subject |-> "subject", body |-> "body",
     attachments |-> Str(<<"~", "/", "f">>),
     content |-> <<"H", "T", "M", "L">>]

\* The arguments the callers pass: the two above and, for each way the
\* construction can fail, a message failing in that way.
Fields ==
    {Plain, Full,
     [Plain EXCEPT !.sender = None],
     [Full EXCEPT !.sender = Str(<<>>)],
     [Plain EXCEPT !.sender = Str(Invalid1)],
     [Full EXCEPT !.recipients = Str(<<>>)],
     [Plain EXCEPT !.recipients = Str(Valid2 \o <<",", " ">> \o Invalid1)],
     [Plain EXCEPT !.cc = Str(<<"a">>)],
     [Full EXCEPT !.bcc = List(<<Invalid1>>)],
     [Plain EXCEPT !.content = <<"T", "e", "x", "d">>],
     [Full EXCEPT !.attachments = List(<<<<"n", "o">>>>)]}

\* ------------------------------------------------------ the transport

\* SmtpServer.__init__: the configuration is stored as given, no handle is
\* held (_smtp = None is handle 0) and the transport is not connected. self
\* is the identity of the object.
SmtpServerInit(self, address, username, password, tls, ssl, port) ==
    [self      |-> self,
     address   |-> address,
     username  |-> username,
     password  |-> password,
     tls       |-> tls,
     ssl       |-> ssl,
     port      |-> port,
     connected |-> FALSE,
     smtp      |-> 0]

\* One library call on a session handle, as recorded in an operation's trace.
Io(cmd, h, args) == [cmd |-> cmd, h |-> h, args |-> args]

\* The outcome of a transport method: the transport afterwards, the sessions
\* of the environment afterwards, the value returned ("True", "False",
\* "None") or "raise" when an exception leaves the method, the library calls
\* made and whether a Message was constructed.
Outcome(srv, sess, ret, io, built) ==
    [srv |-> srv, sessions |-> sess, ret |-> ret, io |-> io, built |-> built]

\* smtplib.SMTP / smtplib.SMTP_SSL (address[, port]): a new session of the
\* environment, open, of the class and port the constructor was given, and
\* the transport that opened it.
NewSession(by, cls, port) == [open |-> TRUE, by |-> by, cls |-> cls, port |-> port]

\* connect() as it would be with self._connected = True set as soon as the
\* session is open instead of at the end.
ConnectFlagFirst(srv, sess, failAt) ==
    LET cls     == IF srv.ssl THEN "SMTP_SSL" ELSE "SMTP"
        h       == Len(sess) + 1
        portArg == IF srv.port # 0 THEN <<srv.port>> ELSE <<>>
        io1     == <<Io("open", h, <<cls, srv.address>> \o portArg)>>
        sess1   == Append(sess, NewSession(srv.self, cls, srv.port))
        srv1    == [srv EXCEPT !.smtp = h, !.connected = TRUE]
        io2     == Append(io1, Io("ehlo", h, <<>>))
        io3     == Append(io2, Io("starttls", h, <<>>))
        io4     == Append(io3, Io("ehlo", h, <<>>))
        io5     == IF srv.tls THEN io4 ELSE io2
        login   == srv.username # "" /\ srv.password # ""
        io6     == Append(io5, Io("login", h, <<srv.username, srv.password>>))
        io7     == IF login THEN io6 ELSE io5
    IN  IF failAt = "open" THEN Outcome(srv, sess, "raise", io1, FALSE)
        ELSE IF failAt = "ehlo" THEN Outcome(srv1, sess1, "raise", io2, FALSE)
        ELSE IF srv.tls /\ failAt = "starttls"
            THEN Outcome(srv1, sess1, "raise", io3, FALSE)
        ELSE IF srv.tls /\ failAt = "ehlo2"
            THEN Outcome(srv1, sess1, "raise", io4, FALSE)
        ELSE IF login /\ failAt = "login"
            THEN Outcome(srv1, sess1, "raise", io6, FALSE)
        ELSE Outcome(srv1, sess1, "None", io7, FALSE)

\* connect() as it would be with the login made right after the first
\* greeting, before the STARTTLS upgrade.
ConnectLoginFirst(srv, sess, failAt) ==
    LET cls     == IF srv.ssl THEN "SMTP_SSL" ELSE "SMTP"
        h       == Len(sess) + 1
        portArg == IF srv.port # 0 THEN <<srv.port>> ELSE <<>>
        io1     == <<Io("open", h, <<cls, srv.address>> \o portArg)>>
        sess1   == Append(sess, NewSession(srv.self, cls, srv.port))
        srv1    == [srv EXCEPT !.smtp = h]
        io2     == Append(io1, Io("ehlo", h, <<>>))
        login   == srv.username # "" /\ srv.password # ""
        io3     == Append(io2, Io("login", h, <<srv.username, srv.password>>))
        io4     == IF login THEN io3 ELSE io2
        io5     == Append(io4, Io("starttls", h, <<>>))
        io6     == Append(io5, Io("ehlo", h, <<>>))
        io7     == IF srv.tls THEN io6 ELSE io4
    IN  IF failAt = "open" THEN Outcome(srv, sess, "raise", io1, FALSE)
        ELSE IF failAt = "ehlo" THEN Outcome(srv1, sess1, "raise", io2, FALSE)
        ELSE IF login /\ failAt = "login"
            THEN Outcome(srv1, sess1, "raise", io3, FALSE)
        ELSE IF srv.tls /\ failAt = "starttls"
            THEN Outcome(srv1, sess1, "raise", io5, FALSE)
        ELSE IF srv.tls /\ failAt = "ehlo2"
            THEN Outcome(srv1, sess1, "raise", io6, FALSE)
        ELSE Outcome([srv1 EXCEPT !.connected = TRUE], sess1, "None", io7, FALSE)

\* connect() as it would be with self._connected = True as its first
\* statement, before the session is opened.
ConnectFlagBeforeOpen(srv, sess, failAt) ==
    LET cls     == IF srv.ssl THEN "SMTP_SSL" ELSE "SMTP"
        h       == Len(sess) + 1
        portArg == IF srv.port # 0 THEN <<srv.port>> ELSE <<>>
        io1     == <<Io("open", h, <<cls, srv.address>> \o portArg)>>
        sess1   == Append(sess, NewSession(srv.self, cls, srv.port))
        srv0    == [srv EXCEPT !.connected = TRUE]
        srv1    == [srv0 EXCEPT !.smtp = h]
        io2     == Append(io1, Io("ehlo", h, <<>>))
        io3     == Append(io2, Io("starttls", h, <<>>))
        io4     == Append(io3, Io("ehlo", h, <<>>))
        io5     == IF srv.tls THEN io4 ELSE io2
        login   == srv.username # "" /\ srv.password # ""
        io6     == Append(io5, Io("login", h, <<srv.username, srv.password>>))
        io7     == IF login THEN io6 ELSE io5
    IN  IF failAt = "open" THEN Outcome(srv0, sess, "raise", io1, FALSE)
        ELSE IF failAt = "ehlo" THEN Outcome(srv1, sess1, "raise", io2, FALSE)
        ELSE IF srv.tls /\ failAt = "starttls"
            THEN Outcome(srv1, sess1, "raise", io3, FALSE)
        ELSE IF srv.tls /\ failAt = "ehlo2"
            THEN Outcome(srv1, sess1, "raise", io4, FALSE)
        ELSE IF login /\ failAt = "login"
            THEN Outcome(srv1, sess1, "raise", io6, FALSE)
        ELSE Outcome(srv1, sess1, "None", io7, FALSE)

\* SmtpServer.connect with the library failing at step failAt ("none": no
\* step fails). A step that is not executed cannot fail. Exceptions are not
\* caught: the method stops at the failing step with what was assigned so
\* far, and the session, on which no close() is called, stays open.
Connect(srv, sess, failAt) ==
    LET cls     == IF srv.ssl THEN "SMTP_SSL" ELSE "SMTP"
        h       == Len(sess) + 1
        portArg == IF srv.port # 0 THEN <<srv.port>> ELSE <<>>
        io1     == <<Io("open", h, <<cls, srv.address>> \o portArg)>>
        sess1   == Append(sess, NewSession(srv.self, cls, srv.port))
        srv1    == [srv EXCEPT !.smtp = h]
        io2     == Append(io1, Io("ehlo", h, <<>>))
        io3     == Append(io2, Io("starttls", h, <<>>))
        io4     == Append(io3, Io("ehlo", h, <<>>))
        io5     == IF srv.tls THEN io4 ELSE io2
        login   == srv.username # "" /\ srv.password # ""
        io6     == Append(io5, Io("login", h, <<srv.username, srv.password>>))
        io7     == IF login THEN io6 ELSE io5
    IN  IF failAt = "open" THEN Outcome(srv, sess, "raise", io1, FALSE)
        ELSE IF failAt = "ehlo" THEN Outcome(srv1, sess1, "raise", io2, FALSE)
        ELSE IF srv.tls /\ failAt = "starttls"
            THEN Outcome(srv1, sess1, "raise", io3, FALSE)
        ELSE IF srv.tls /\ failAt = "ehlo2"
            THEN Outcome(srv1, sess1, "raise", io4, FALSE)
        ELSE IF login /\ failAt = "login"
            THEN Outcome(srv1, sess1, "raise", io6, FALSE)
        ELSE Outcome([srv1 EXCEPT !.connected = TRUE], sess1, "None", io7, FALSE)

\* The sendmail call as it would be with the to addresses alone as the
\* envelope's recipients.
SendmailToOnly(srv, message) ==
    Io("sendmail", srv.smtp,
       <<message.v.sender, message.v.to, AsString(message.v)>>)

\* The sendmail call of send().
Sendmail(srv, message) ==
    Io("sendmail", srv.smtp,
       <<message.v.sender, Recipients(message.v), AsString(message.v)>>)

\* The try block as it would be without self._connected = False.
TransmitKeepsConnected(srv, sess, message, sendOk) ==
    IF ~message.ok THEN Outcome(srv, sess, "False", <<>>, FALSE)
    ELSE IF ~sendOk
        THEN Outcome(srv, sess, "False", <<Sendmail(srv, message)>>, TRUE)
    ELSE Outcome(srv, sess, "True", <<Sendmail(srv, message)>>, TRUE)

\* The try block as it would be with self._connected = False in a finally
\* clause.
TransmitAlwaysClears(srv, sess, message, sendOk) ==
    IF ~message.ok
    THEN Outcome([srv EXCEPT !.connected = FALSE], sess, "False", <<>>, FALSE)
    ELSE IF ~sendOk
        THEN Outcome([srv EXCEPT !.connected = FALSE], sess, "False",
                     <<Sendmail(srv, message)>>, TRUE)
    ELSE Outcome([srv EXCEPT !.connected = FALSE], sess, "True",
                 <<Sendmail(srv, message)>>, TRUE)

\* send() as it would be with the Message built before the try block, so
\* that an exception of the constructor leaves send().
TransmitRaisesInvalid(srv, sess, message, sendOk) ==
    IF ~message.ok THEN Outcome(srv, sess, "raise", <<>>, FALSE)
    ELSE IF ~sendOk
        THEN Outcome(srv, sess, "False", <<Sendmail(srv, message)>>, TRUE)
    ELSE Outcome([srv EXCEPT !.connected = FALSE], sess, "True",
                 <<Sendmail(srv, message)>>, TRUE)

\* The try block of send() once the Message constructor has returned or
\* raised: sendmail is called with the sender, all the recipients and the
\* rendering; success returns True and clears connected; any exception
\* (construction or transmission) is logged and False is returned with
\* connected as it was.
Transmit(srv, sess, message, sendOk) ==
    IF ~message.ok THEN Outcome(srv, sess, "False", <<>>, FALSE)
    ELSE IF ~sendOk
        THEN Outcome(srv, sess, "False", <<Sendmail(srv, message)>>, TRUE)
    ELSE Outcome([srv EXCEPT !.connected = FALSE], sess, "True",
                 <<Sendmail(srv, message)>>, TRUE)

\* send() as it would be without the check of connected.
SendUnguarded(srv, sess, f, date, sendOk) ==
    Transmit(srv, sess, Message(f, date), sendOk)

\* SmtpServer.send. Not connected: False at once, nothing else is done.
Send(srv, sess, f, date, sendOk) ==
    IF ~srv.connected THEN Outcome(srv, sess, "False", <<>>, FALSE)
    ELSE Transmit(srv, sess, Message(f, date), sendOk)

\* disconnect() as it would be without the check of connected.
DisconnectUnguarded(srv, sess, closeOk) ==
    IF ~closeOk
    THEN Outcome(srv, sess, "False", <<Io("close", srv.smtp, <<>>)>>, FALSE)
    ELSE Outcome([srv EXCEPT !.connected = FALSE],
                 [i \in DOMAIN sess |->
                     IF i = srv.smtp THEN [sess[i] EXCEPT !.open = FALSE]
                     ELSE sess[i]],
                 "True", <<Io("close", srv.smtp, <<>>)>>, FALSE)

\* disconnect() as it would be with self._connected = False set before the
\* close() call instead of after it.
DisconnectClearsFirst(srv, sess, closeOk) ==
    IF ~srv.connected THEN Outcome(srv, sess, "True", <<>>, FALSE)
    ELSE IF ~closeOk
        THEN Outcome([srv EXCEPT !.connected = FALSE], sess, "False",
                     <<Io("close", srv.smtp, <<>>)>>, FALSE)
    ELSE Outcome([srv EXCEPT !.connected = FALSE],
                 [sess EXCEPT ![srv.smtp].open = FALSE],
                 "True", <<Io("close", srv.smtp, <<>>)>>, FALSE)

\* disconnect() as it would be if it dropped the password once the session
\* is closed.
DisconnectForgetsLogin(srv, sess, closeOk) ==
    IF ~srv.connected THEN Outcome(srv, sess, "True", <<>>, FALSE)
    ELSE IF ~closeOk
        THEN Outcome(srv, sess, "False", <<Io("close", srv.smtp, <<>>)>>, FALSE)
    ELSE Outcome([srv EXCEPT !.connected = FALSE, !.password = ""],
                 [sess EXCEPT ![srv.smtp].open = FALSE],
                 "True", <<Io("close", srv.smtp, <<>>)>>, FALSE)

\* SmtpServer.disconnect. Not connected: True at once. Otherwise the handle
\* is closed; connected is cleared only when close() did not raise.
Disconnect(srv, sess, closeOk) ==
    IF ~srv.connected THEN Outcome(srv, sess, "True", <<>>, FALSE)
    ELSE IF ~closeOk
        THEN Outcome(srv, sess, "False", <<Io("close", srv.smtp, <<>>)>>, FALSE)
    ELSE Outcome([srv EXCEPT !.connected = FALSE],
                 [sess EXCEPT ![srv.smtp].open = FALSE],
                 "True", <<Io("close", srv.smtp, <<>>)>>, FALSE)

\* ------------------------------------------------------ the EasySender

\* A call of a transport method as the wrapper made it, with what it gave.
Call(method, r) == [method |-> method, ret |-> r.ret]

\* What a call of EasySender.send did: the transport and the sessions
\* afterwards, the value returned, the library calls, whether a Message was
\* built and the transport methods invoked.
EasyOutcome(srv, sess, ret, io, built, calls) ==
    [srv |-> srv, sessions |-> sess, ret |-> ret, io |-> io, built |-> built,
     calls |-> calls]

\* The return as it would be if the wrapper gave the result of send().
EasyReturnsSendResult(c, s, d) ==
    EasyOutcome(d.srv, d.sessions, s.ret, c.io \o s.io \o d.io, s.built,
                <<Call("connect", c), Call("send", s), Call("disconnect", d)>>)

\* return True, after the three calls c, s and d.
EasyReturn(c, s, d) ==
    EasyOutcome(d.srv, d.sessions, "True", c.io \o s.io \o d.io, s.built,
                <<Call("connect", c), Call("send", s), Call("disconnect", d)>>)

\* The wrapper as it would be if it disconnected only after a send() that
\* returned True.
EasyDisconnectIfSent(c, s, closeOk) ==
    IF s.ret = "False"
    THEN EasyOutcome(s.srv, s.sessions, "True", c.io \o s.io, s.built,
                     <<Call("connect", c), Call("send", s)>>)
    ELSE EasyReturn(c, s, Disconnect(s.srv, s.sessions, closeOk))

\* self._server.disconnect(), after the calls c and s.
EasyDisconnect(c, s, closeOk) ==
    EasyReturn(c, s, Disconnect(s.srv, s.sessions, closeOk))

\* The wrapper as it would be if it caught the exception of connect() and
\* went on.
EasySendCatching(c, f, date, sendOk, closeOk) ==
    EasyDisconnect(c, Send(c.srv, c.sessions, f, date, sendOk), closeOk)

\* self._server.send(...), after the call c of connect(): an exception of
\* connect() is not caught and ends the call there.
EasySend(c, f, date, sendOk, closeOk) ==
    IF c.ret = "raise"
    THEN EasyOutcome(c.srv, c.sessions, "raise", c.io, FALSE,
                     <<Call("connect", c)>>)
    ELSE EasyDisconnect(c, Send(c.srv, c.sessions, f, date, sendOk), closeOk)

\* EasySender.send: connect(), send(...), disconnect() on the wrapped
\* transport, the results dropped, then True.
EasySenderSend(srv, sess, f, date, failAt, sendOk, closeOk) ==
    EasySend(Connect(srv, sess, failAt), f, date, sendOk, closeOk)

\* ------------------------------------------------------------ the model

\* The transports the callers construct: the arguments of the test suite,
\* the defaults, implicit TLS without a port, a user name without a password
\* and both ssl and tls set.
Configs ==
    {SmtpServerInit("server", "smtp.test.com", "hacker", "whatever", TRUE, FALSE, 587),
     SmtpServerInit("server", "smtp.test.com", "", "", TRUE, FALSE, 0),
     SmtpServerInit("server", "smtp.test.com", "hacker", "whatever", FALSE, TRUE, 0),
     SmtpServerInit("server", "smtp.test.com", "hacker", "", FALSE, FALSE, 587),
     SmtpServerInit("server", "smtp.test.com", "", "whatever", TRUE, TRUE, 0)}

\* EasySender.__init__ builds its transport from its own arguments, whose
\* defaults are tls=False and ssl=True.
EasySenderInit(address, username, password, tls, ssl, port) ==
    SmtpServerInit("easy", address, username, password, tls, ssl, port)

EasyConfigs ==
    {EasySenderInit("smtp.test.com", "hacker", "whatever", FALSE, TRUE, 0)}

\* The steps connect() executes on this transport, each of which can fail,
\* and "none" for a run in which none does.
FailSteps(srv) ==
    {"none", "open", "ehlo"}
        \cup (IF srv.tls THEN {"starttls", "ehlo2"} ELSE {})
        \cup (IF srv.username # "" /\ srv.password # "" THEN {"login"} ELSE {})

\* What the environment did in a call: the connect step that failed, and
\* whether sendmail and close succeeded. A library call that was not made
\* has no outcome and is recorded as succeeding.
Env(failAt, sendOk, closeOk) ==
    [failAt |-> failAt, sendOk |-> sendOk, closeOk |-> closeOk]

\* The arguments of a call that takes none.
NoArgs == [date |-> ""]

\* The arguments a call of send() with the outcome r built its Message
\* from: the fields, and the clock's reading; none when it built none.
SendArgs(r, f, date) ==
    IF r.built THEN [fields |-> f, date |-> date] ELSE NoArgs

\* What the last call did: the object and method, the arguments of the
\* Message it built, connected before it, the exception the Message
\* constructor has for the arguments ("none" when it has none or the method
\* takes no message), the value the call gave, the library calls it made,
\* whether it built a Message, the transport methods it invoked (the wrapper
\* only) and the environment's part.
CallRecord(obj, op, args, pre, err, r, calls, env) ==
    [obj |-> obj, op |-> op, args |-> args, pre |-> pre, err |-> err,
     ret |-> r.ret, io |-> r.io, built |-> r.built, calls |-> calls,
     env |-> env]

NoCall ==
    [obj |-> "none", op |-> "init", args |-> NoArgs, pre |-> FALSE,
     err |-> "none", ret |-> "None", io |-> <<>>,
     built |-> FALSE, calls |-> <<>>, env |-> Env("none", TRUE, TRUE)]

\* No Message is being constructed and no address validated by hand.
NotMade ==
    [op |-> "none", args |-> NoArgs, lists |-> <<>>, done |-> FALSE,
     r |-> Raise("none")]

Init ==
    /\ server \in Configs
    /\ easy \in EasyConfigs
    /\ sessions = <<>>
    /\ last = NoCall
    /\ guarded = TRUE
    /\ made = NotMade

\* A caller invokes server.connect(); the code has no guard on connected.
DoConnect ==
    /\ Len(sessions) < MaxSessions
    /\ \E failAt \in FailSteps(server) :
          \E r \in {Connect(server, sessions, failAt)} :
              /\ server' = r.srv
              /\ sessions' = r.sessions
              /\ last' = CallRecord("server", "connect", NoArgs, server.connected,
                                    "none", r,
                                    <<>>, Env(failAt, TRUE, TRUE))
    /\ guarded' = (guarded /\ ~server.connected)
    /\ UNCHANGED <<easy, made>>

\* A caller invokes server.send(...).
DoSend ==
    /\ \E f \in Fields, date \in Dates, sendOk \in BOOLEAN :
          \E r \in {Send(server, sessions, f, date, sendOk)} :
              /\ r.io = <<>> => sendOk
              /\ server' = r.srv
              /\ sessions' = r.sessions
              /\ last' = CallRecord("server", "send", SendArgs(r, f, date),
                                    server.connected, Message(f, date).err, r,
                                    <<>>, Env("none", sendOk, TRUE))
    /\ UNCHANGED <<easy, guarded, made>>

\* A caller invokes server.disconnect().
DoDisconnect ==
    /\ \E closeOk \in BOOLEAN :
          \E r \in {Disconnect(server, sessions, closeOk)} :
              /\ r.io = <<>> => closeOk
              /\ server' = r.srv
              /\ sessions' = r.sessions
              /\ last' = CallRecord("server", "disconnect", NoArgs,
                                    server.connected, "none", r, <<>>,
                                    Env("none", TRUE, closeOk))
    /\ UNCHANGED <<easy, guarded, made>>

\* A caller invokes EasySender.send(...).
DoEasySend ==
    /\ Len(sessions) < MaxSessions
    /\ \E f \in Fields, date \in Dates, failAt \in FailSteps(easy),
          sendOk \in BOOLEAN, closeOk \in BOOLEAN :
          \E r \in {EasySenderSend(easy, sessions, f, date, failAt, sendOk,
                                    closeOk)} :
              /\ (\A i \in DOMAIN r.io : r.io[i].cmd # "sendmail") => sendOk
              /\ (\A i \in DOMAIN r.io : r.io[i].cmd # "close") => closeOk
              /\ easy' = r.srv
              /\ sessions' = r.sessions
              /\ last' = CallRecord("easy", "send", SendArgs(r, f, date),
                                    easy.connected, Message(f, date).err, r,
                                    r.calls, Env(failAt, sendOk, closeOk))
    /\ UNCHANGED <<server, guarded, made>>

Next == DoConnect \/ DoSend \/ DoDisconnect \/ DoEasySend

Spec == Init /\ [][Next]_vars

\* ------------------------------------------- the Message, used directly

\* The addresses a caller writes in to, cc and bcc.
Pool == {Valid1, Valid2, Invalid1}

\* The sequences of at most n elements of S.
RECURSIVE SeqsOf(_, _)
SeqsOf(S, n) ==
    IF n = 0 THEN {<<>>}
    ELSE {<<>>} \cup {<<x>> \o l : x \in S, l \in SeqsOf(S, n - 1)}

\* The entries w shared out as to (the first i), cc (up to the j-th) and
\* bcc (the rest).
Cut(w, i, j) ==
    <<SubSeq(w, 1, i), SubSeq(w, i + 1, j), SubSeq(w, j + 1, Len(w))>>

\* The to, cc and bcc lists a caller has in mind.
Lists ==
    UNION {{Cut(w, c[1], c[2]) :
               c \in {d \in (0..Len(w)) \X (0..Len(w)) : d[1] <= d[2]}} :
           w \in SeqsOf(Pool, MaxEntries)}

\* The ways of passing the list l: as a sequence, as one text with the
\* entries joined by ', ', and, for no entry, not at all.
Forms(l) ==
    IF l = <<>> THEN {None, Str(<<>>), List(<<>>)} ELSE {List(l), Str(Join(l))}

\* The sender, attachments and content passed along with them.
Rest ==
    {[sender |-> Str(Valid1), attachments |-> None,
      content |-> <<"t", "e", "x", "t">>],
     [sender |-> Str(Valid2), attachments |-> Str(<<"g">>),
      content |-> <<"H", "t", "m", "l">>],
     [sender |-> Str(Invalid1), attachments |-> None,
      content |-> <<"t", "e", "x", "t">>],
     [sender |-> None, attachments |-> None,
      content |-> <<"t", "e", "x", "t">>],
     [sender |-> Str(<<>>), attachments |-> List(<<<<"n", "o">>>>),
      content |-> <<"x", "m", "l">>]}

\* The content values passed with fields that are valid otherwise.
Contents ==
    {<<"t", "e", "x", "t">>, <<"T", "e", "x", "t">>, <<"T", "E", "X", "T">>,
     <<"h", "t", "m", "l">>, <<"H", "t", "m", "l">>, <<"H", "T", "M", "L">>,
     <<"t", "e", "x", "d">>, <<"x", "m", "l">>, <<"h", "t", "m">>, <<>>,
     <<"h", "t", "m", "l", "x">>}

\* The texts over a letter, '@' and '.' of at most MaxAddrLen characters.
Addresses == SeqsOf({"a", "@", "."}, MaxAddrLen)

\* A caller about to make the call op with arguments args, having the
\* lists in mind.
Pending(op, args, lists) ==
    [op |-> op, args |-> args, lists |-> lists, done |-> FALSE,
     r |-> Raise("none")]

\* The to, cc and bcc lists the callers of the transport have in mind in
\* their two messages.
PlainLists == <<<<Valid2>>, <<>>, <<>>>>

FullLists == <<<<Valid2, Valid1>>, <<Valid3>>, <<Valid1, Valid3>>>>

\* The fields of a Message with the to, cc and bcc values a, b and c and the
\* rest r.
WithRest(a, b, c, r) ==
    [sender |-> r.sender, recipients |-> a, cc |-> b, bcc |-> c,
     subject |-> "subject", body |-> "body", attachments |-> r.attachments,
     content |-> r.content]

\* A caller is about to construct a Message, from lists passed in one of
\* their forms or from one of the two messages of the transport's callers
\* with another content value, or to validate an address. The transports
\* are not used.
MsgInit ==
    /\ server = SmtpServerInit("server", "smtp.test.com", "", "", TRUE, FALSE, 0)
    /\ easy \in EasyConfigs
    /\ sessions = <<>>
    /\ last = NoCall
    /\ guarded = TRUE
    /\ \/ \E t \in Lists :
             \E a \in Forms(t[1]), b \in Forms(t[2]), c \in Forms(t[3]),
                r \in Rest :
                 made = Pending("Message", WithRest(a, b, c, r), t)
       \/ \E c \in Contents :
             \/ made = Pending("Message", [Plain EXCEPT !.content = c],
                               PlainLists)
             \/ made = Pending("Message", [Full EXCEPT !.content = c],
                               FullLists)
       \/ \E a \in Addresses :
             made = Pending("_validate_simple", [email |-> a], <<>>)

\* The caller constructs the Message: made.r is the object, or the exception
\* that left the constructor.
DoMessage ==
    /\ made.op = "Message" /\ ~made.done
    /\ \E date \in Dates :
          made' = [made EXCEPT !.done = TRUE, !.r = Message(made.args, date)]
    /\ UNCHANGED <<server, easy, sessions, last, guarded>>

\* The caller validates one address.
DoValidateSimple ==
    /\ made.op = "_validate_simple" /\ ~made.done
    /\ made' = [made EXCEPT !.done = TRUE, !.r = ValidateSimple(made.args.email)]
    /\ UNCHANGED <<server, easy, sessions, last, guarded>>

MsgNext == DoMessage \/ DoValidateSimple

MsgSpec == MsgInit /\ [][MsgNext]_vars

\* ----------------------------------------------------------- properties

\* The last call was method op of the transport used directly.
OnServer(op) == last.obj = "server" /\ last.op = op

\* The last call was EasySender.send.
OnEasy == last.obj = "easy" /\ last.op = "send"

\* The library calls named cmd that the last call made.
Made(cmd) == {i \in DOMAIN last.io : last.io[i].cmd = cmd}

\* The transport methods the wrapper invoked in the last call, in order.
Methods == [i \in DOMAIN last.calls |-> last.calls[i].method]

\* The sessions opened by transport t that are open (not yet closed).
OpenBy(t) == {i \in DOMAIN sessions : sessions[i].by = t /\ sessions[i].open}

\* C1: send() called while connected is false returns False without raising,
\* builds no Message, makes no library call (so no sendmail) and leaves
\* connected false.
C1_SendNotConnected ==
    (OnServer("send") /\ ~last.pre) =>
        /\ last.ret = "False"
        /\ ~last.built
        /\ last.io = <<>>
        /\ ~server.connected

\* C1 happens: a send() on a disconnected transport that holds a handle from
\* an earlier round, with arguments a Message can be built from.
C1_Witness ==
    /\ OnServer("send") /\ ~last.pre
    /\ last.err = "none"
    /\ server.smtp # 0
    /\ last.ret = "False"

\* C2: send() called while connected, whose sendmail call succeeds, returns
\* True and leaves connected false although no close was called; the inner
\* send() of the wrapper returns True in the same case.
C2_SendSuccessDisconnects ==
    /\ (OnServer("send") /\ last.pre /\ Made("sendmail") # {} /\ last.env.sendOk) =>
          /\ last.ret = "True"
          /\ ~server.connected
          /\ Made("close") = {}
    /\ (OnEasy /\ Made("sendmail") # {} /\ last.env.sendOk) =>
          last.calls[2].ret = "True"

\* C2 happens: a successful send() after which the session is still open.
C2_Witness ==
    /\ OnServer("send") /\ last.pre /\ last.env.sendOk
    /\ Made("sendmail") # {}
    /\ ~server.connected
    /\ sessions[server.smtp].open

\* C3: send() called while connected, whose sendmail call fails, returns
\* False without raising and leaves connected true.
C3_SendFailureKeepsConnected ==
    (OnServer("send") /\ last.pre /\ Made("sendmail") # {} /\ ~last.env.sendOk) =>
        /\ last.ret = "False"
        /\ server.connected

\* C3 happens: a send() whose sendmail call raised.
C3_Witness ==
    /\ OnServer("send") /\ last.pre
    /\ Made("sendmail") # {} /\ ~last.env.sendOk
    /\ last.ret = "False"

\* C4: send() called while connected with arguments for which the Message
\* constructor raises returns False without raising, makes no sendmail call
\* and leaves connected true.
C4_SendInvalidMessage ==
    (OnServer("send") /\ last.pre /\ last.err # "none") =>
        /\ last.ret = "False"
        /\ ~last.built
        /\ Made("sendmail") = {}
        /\ server.connected

\* C4 happens: a send() on a connected transport with an attachment that
\* cannot be read.
C4_Witness ==
    /\ OnServer("send") /\ last.pre
    /\ last.err = "IOError"
    /\ last.ret = "False"

\* C4 happens for an address or content type as well.
C4_WitnessValue ==
    /\ OnServer("send") /\ last.pre
    /\ last.err = "ValueError"
    /\ last.ret = "False"

\* C5 as stated: in every state in which connect() is called, a failing
\* step makes connect() raise and connected is false afterwards.
C5_Original ==
    (OnServer("connect") /\ last.env.failAt # "none") =>
        /\ last.ret = "raise"
        /\ ~server.connected

\* C5 amended: a failing step makes connect() raise and leaves connected as
\* it was before the call: false when connect() was called on a disconnected
\* transport, true when it was called on a connected one. The same holds of
\* the connect() of the wrapper.
C5_ConnectFailure ==
    /\ (OnServer("connect") /\ last.env.failAt # "none") =>
          /\ last.ret = "raise"
          /\ server.connected = last.pre
    /\ (OnEasy /\ last.env.failAt # "none") =>
          /\ last.ret = "raise"
          /\ easy.connected = last.pre

\* C5 happens: connect() on a disconnected transport fails at the login,
\* after the session was opened and upgraded.
C5_Witness ==
    /\ OnServer("connect") /\ ~last.pre
    /\ last.env.failAt = "login"
    /\ last.ret = "raise"
    /\ ~server.connected

\* C6 as stated: while connect() was only ever called on the disconnected
\* transport, at most one session it opened is open.
C6_AtMostOneOpenSession == guarded => Cardinality(OpenBy("server")) <= 1

C9_EasySessionClosed ==
    (OnEasy /\ last.ret = "True" /\ last.env.closeOk) =>
        ~sessions[last.io[1].h].open

\* C10: disconnect() called while connected is false returns True, makes no
\* library call (so no close) and leaves connected false; so does the inner
\* disconnect() of the wrapper after a send() that returned True.
C10_DisconnectNotConnected ==
    /\ (OnServer("disconnect") /\ ~last.pre) =>
          /\ last.ret = "True"
          /\ last.io = <<>>
          /\ ~server.connected
    /\ (OnEasy /\ last.ret = "True" /\ last.calls[2].ret = "True") =>
          /\ last.calls[3].ret = "True"
          /\ Made("close") = {}
          /\ ~easy.connected

\* C10 happens: disconnect() on a transport that a successful send() left
\* disconnected, whose session is therefore still open.
C10_Witness ==
    /\ OnServer("disconnect") /\ ~last.pre
    /\ server.smtp # 0
    /\ sessions[server.smtp].open
    /\ last.ret = "True"

\* C11: disconnect() called while connected never raises and calls close()
\* once: when close() succeeds it returns True and connected is false, when
\* close() raises it returns False and connected stays true. After any
\* disconnect(), also the inner one of the wrapper, connected is false
\* exactly when it returned True.
C11_DisconnectConnected ==
    /\ (OnServer("disconnect") /\ last.pre) =>
          /\ last.ret # "raise"
          /\ Cardinality(Made("close")) = 1
          /\ last.env.closeOk => (last.ret = "True" /\ ~server.connected)
          /\ ~last.env.closeOk => (last.ret = "False" /\ server.connected)
    /\ OnServer("disconnect") => (~server.connected <=> last.ret = "True")
    /\ (OnEasy /\ Len(last.calls) = 3) =>
          (~easy.connected <=> last.calls[3].ret = "True")

\* C11 happens: a disconnect() on a connected transport whose close() raised.
C11_Witness ==
    /\ OnServer("disconnect") /\ last.pre
    /\ ~last.env.closeOk
    /\ last.ret = "False"
    /\ server.connected

\* C11 happens with close() succeeding as well.
C11_WitnessClosed ==
    /\ OnServer("disconnect") /\ last.pre
    /\ last.env.closeOk
    /\ last.ret = "True"
    /\ ~sessions[server.smtp].open

\* A Message was constructed from the caller's arguments.
Constructed == made.op = "Message" /\ made.done /\ made.r.ok

\* The constructor raised an exception for the caller's arguments.
Refused == made.op = "Message" /\ made.done /\ ~made.r.ok

\* The elements of the list l.
Range(l) == {l[i] : i \in DOMAIN l}

\* The address a is written somewhere in the text.
Contains(text, a) ==
    \E k \in 0..(Len(text) - Len(a)) : SubSeq(text, k + 1, k + Len(a)) = a

\* The address a is written in the From, To or Cc header of the message.
InHeaders(message, a) ==
    \E n \in DOMAIN message.headers \cap {"From", "To", "Cc"} :
        Contains(message.headers[n], a)

\* C12: the recipients of a constructed Message are the to entries the
\* caller had in mind, then the cc entries, then the bcc entries, each list
\* in the order given and with its repetitions, whichever way the lists
\* were passed.
C12_RecipientsConcatenated ==
    Constructed =>
        /\ Recipients(made.r.v) = made.lists[1] \o made.lists[2] \o made.lists[3]
        /\ made.r.v.to = made.lists[1]
        /\ made.r.v.cc = made.lists[2]
        /\ made.r.v.bcc = made.lists[3]

\* C12 happens: the same address twice in to, passed as one text, and once
\* more in bcc, after another address in cc.
C12_Witness ==
    /\ Constructed
    /\ made.lists = <<<<Valid1, Valid1>>, <<>>, <<Valid1>>>>
    /\ made.args.recipients.kind = "str"
    /\ Recipients(made.r.v) = <<Valid1, Valid1, Valid1>>

\* C12 happens with the three lists in use and in the order given.
C12_WitnessOrder ==
    /\ Constructed
    /\ Recipients(made.r.v) = <<Valid2, Valid1, Valid2>>
    /\ made.lists = <<<<Valid2>>, <<Valid1>>, <<Valid2>>>>

\* C13 as stated: no bcc address of a constructed Message is written in its
\* From, To or Cc header, and every bcc address is one of the recipients.
C13_Original ==
    Constructed =>
        \A i \in DOMAIN made.lists[3] :
            /\ ~InHeaders(made.r.v.message, made.lists[3][i])
            /\ made.lists[3][i] \in Range(Recipients(made.r.v))

\* C13 amended: no header of a constructed Message is made from bcc: there
\* is no Bcc header, and a bcc address is written in the From, To or Cc
\* header only when the caller gave the same address as the sender, in to
\* or in cc as well. Every bcc address is one of the recipients.
C13_BccNotInHeaders ==
    Constructed =>
        /\ "Bcc" \notin DOMAIN made.r.v.message.headers
        /\ \A i \in DOMAIN made.lists[3] :
              /\ made.lists[3][i] \in Range(Recipients(made.r.v))
              /\ made.lists[3][i] \notin
                     {made.args.sender.v} \cup Range(made.lists[1])
                         \cup Range(made.lists[2])
                  => ~InHeaders(made.r.v.message, made.lists[3][i])

\* C13 happens: a Message with a Cc header and a bcc address that is neither
\* the sender nor in to nor in cc.
C13_Witness ==
    /\ Constructed
    /\ made.args.sender = Str(Valid1)
    /\ made.lists = <<<<Valid1>>, <<Valid1>>, <<Valid2>>>>
    /\ ~InHeaders(made.r.v.message, Valid2)
    /\ Valid2 \in Range(Recipients(made.r.v))

\* What sendmail is to be given for the Message m: the sender, the to, cc
\* and bcc addresses in this order, and the rendering.
Envelope(m) == <<m.sender, m.to \o m.cc \o m.bcc, m.message>>

\* C14: send() called while connected with fields a Message can be built
\* from makes exactly one sendmail call and no other library call, on the
\* handle the transport holds, with the validated sender, the to, cc and bcc
\* addresses in this order and the rendering of the Message; so does the
\* inner send() of the wrapper, after its connect(). For the message with
\* every field in use the recipients are the five addresses given.
C14_SendTransmitsOnce ==
    /\ (OnServer("send") /\ last.pre /\ last.err = "none") =>
          /\ last.built
          /\ Len(last.io) = 1
          /\ last.io[1].cmd = "sendmail"
          /\ last.io[1].h = server.smtp
          /\ last.io[1].args =
                 Envelope(Message(last.args.fields, last.args.date).v)
          /\ last.args.fields = Full =>
                 /\ last.io[1].args[1] = Valid1
                 /\ last.io[1].args[2] =
                        <<Valid2, Valid1, Valid3, Valid1, Valid3>>
    /\ (OnEasy /\ Len(last.calls) = 3 /\ last.err = "none") =>
          /\ last.built
          /\ Cardinality(Made("sendmail")) = 1
          /\ \A i \in Made("sendmail") :
                 /\ last.io[i].h = easy.smtp
                 /\ last.io[i].args =
                        Envelope(Message(last.args.fields, last.args.date).v)

\* C14 happens: a send() of the message with to, cc and bcc in use, on a
\* connected transport, whose sendmail call names the five recipients.
C14_Witness ==
    /\ OnServer("send") /\ last.pre /\ last.built
    /\ last.args.fields = Full
    /\ Len(last.io) = 1
    /\ last.io[1].args[2] = <<Valid2, Valid1, Valid3, Valid1, Valid3>>
    /\ last.io[1].args[3].headers["To"] = Valid2 \o <<",", " ">> \o Valid1

\* The addresses of the pool that have the form local@domain.tld.
ValidPool == {Valid1, Valid2}

\* The caller gave no sender: None or the empty text.
NoSender == made.args.sender \in {None, Str(<<>>)}

\* Every entry the caller has in mind for cc and bcc is a valid address.
ValidCopies == Range(made.lists[2]) \cup Range(made.lists[3]) \subseteq ValidPool

\* The caller gave an entry that is no valid address in to, cc or bcc, or a
\* sender that is none.
SomeInvalid ==
    \/ made.args.sender = Str(Invalid1)
    \/ \E k \in 1..3 : Invalid1 \in Range(made.lists[k])

\* C15: the construction of a Message with no sender (None or '') raises
\* ValueError and gives no Message, whatever the other fields are: valid or
\* not, with readable or unreadable attachments.
C15_NoSenderFails ==
    (made.op = "Message" /\ made.done /\ NoSender) =>
        /\ ~made.r.ok
        /\ made.r.err = "ValueError"

\* C15 happens: no sender, every other field valid.
C15_Witness ==
    /\ Refused /\ made.args.sender = None
    /\ made.lists = <<<<Valid1>>, <<Valid2>>, <<>>>>
    /\ made.r.err = "ValueError"

\* C15 happens with an attachment that cannot be read and a content value
\* that is not allowed.
C15_WitnessOthersInvalid ==
    /\ Refused /\ made.args.sender = Str(<<>>)
    /\ made.args.attachments = List(<<<<"n", "o">>>>)
    /\ made.lists = <<<<Valid1>>, <<>>, <<>>>>
    /\ made.r.err = "ValueError"

\* C16: the construction of a Message with an empty to (None, '', an empty
\* sequence) raises ValueError and gives no Message, for every valid sender
\* and all valid cc and bcc.
C16_NoRecipientFails ==
    (made.op = "Message" /\ made.done /\ made.lists[1] = <<>>
         /\ made.args.sender \in {Str(Valid1), Str(Valid2)} /\ ValidCopies) =>
        /\ ~made.r.ok
        /\ made.r.err = "ValueError"

\* C16 happens: an empty sequence as to, with valid cc and bcc.
C16_Witness ==
    /\ Refused
    /\ made.args.recipients = List(<<>>)
    /\ made.args.sender = Str(Valid1)
    /\ made.lists = <<<<>>, <<Valid1>>, <<Valid2, Valid1>>>>
    /\ made.r.err = "ValueError"

\* C17: when the sender or any entry of to, cc or bcc, at any position and
\* in either form of the list, is no valid address, the construction raises
\* ValueError and gives no Message.
C17_InvalidEntryFails ==
    (made.op = "Message" /\ made.done /\ SomeInvalid) =>
        /\ ~made.r.ok
        /\ made.r.err = "ValueError"

\* C17 happens: the second of two cc entries, passed as one text, is no
\* valid address; the sender and to are valid.
C17_Witness ==
    /\ Refused
    /\ made.args.sender = Str(Valid1)
    /\ made.lists = <<<<Valid2>>, <<Valid1, Invalid1>>, <<>>>>
    /\ made.args.cc.kind = "str"
    /\ made.r.err = "ValueError"

\* C17 happens for the first of two bcc entries passed as a sequence.
C17_WitnessBcc ==
    /\ Refused
    /\ made.args.sender = Str(Valid1)
    /\ made.lists = <<<<Valid2>>, <<>>, <<Invalid1, Valid1>>>>
    /\ made.args.bcc.kind = "list"

\* The text s is one or more characters other than '@', then '@', then one
\* or more characters other than '@', then '.', then one or more characters
\* other than '@', and nothing else.
WellFormed(s) ==
    \E i \in DOMAIN s, j \in DOMAIN s :
        /\ 1 < i /\ i + 1 < j /\ j < Len(s)
        /\ s[i] = "@" /\ s[j] = "."
        /\ \A k \in DOMAIN s : s[k] = "@" => k = i

\* The address validation was given the text s and accepted it.
Accepted(s) == made.args.email = s /\ made.r.ok

\* The address validation was given the text s and raised ValueError.
Rejected(s) == made.args.email = s /\ ~made.r.ok /\ made.r.err = "ValueError"

C18_WitnessAccepted ==
    /\ made.op = "_validate_simple" /\ made.done
    /\ Accepted(<<".", "@", ".", ".", "a">>)

\* The content values that fold to 'text' and to 'html'.
TextForms == {<<"t", "e", "x", "t">>, <<"T", "e", "x", "t">>, <<"T", "E", "X", "T">>}

HtmlForms == {<<"h", "t", "m", "l">>, <<"H", "t", "m", "l">>, <<"H", "T", "M", "L">>}

\* The fields other than content are those of a message that can be built.
RestValid ==
    [made.args EXCEPT !.content = Plain.content]
        \in {Plain, [Full EXCEPT !.content = Plain.content]}

\* C19: the construction accepts a content value exactly when it is 'text'
\* or 'html' in any case: no Message is built with another value, and with
\* the other fields valid such a value is accepted, the content stored is
\* the lower-case word and 'html' in any case gives the alternative
\* container with an html body part, 'text' the mixed one with a plain
\* part; any other value raises ValueError.
C19_ContentFolded ==
    (made.op = "Message" /\ made.done) =>
        /\ made.r.ok => made.args.content \in TextForms \cup HtmlForms
        /\ (RestValid /\ made.args.content \in HtmlForms) =>
              /\ made.r.ok
              /\ made.r.v.content = <<"h", "t", "m", "l">>
              /\ made.r.v.message.subtype = "alternative"
              /\ made.r.v.message.payload[1].type = "html"
        /\ (RestValid /\ made.args.content \in TextForms) =>
              /\ made.r.ok
              /\ made.r.v.content = <<"t", "e", "x", "t">>
              /\ made.r.v.message.subtype = "mixed"
              /\ made.r.v.message.payload[1].type = "plain"
        /\ (RestValid /\ made.args.content \notin TextForms \cup HtmlForms) =>
              /\ ~made.r.ok
              /\ made.r.err = "ValueError"

\* C19 happens: 'HTML' is accepted, stored as 'html' and rendered as html.
C19_Witness ==
    /\ Constructed
    /\ made.args.content = <<"H", "T", "M", "L">>
    /\ made.r.v.content = <<"h", "t", "m", "l">>
    /\ made.r.v.message.subtype = "alternative"

\* C19 happens: a value that is a prefix of an allowed one is refused.
C19_WitnessRefused ==
    /\ Refused /\ RestValid
    /\ made.args.content = <<"h", "t", "m">>
    /\ made.r.err = "ValueError"

\* What the accessors address, port, username, password, tls and ssl of the
\* transport srv return.
Accessors(srv) ==
    <<srv.address, srv.port, srv.username, srv.password, srv.tls, srv.ssl>>

\* C20: a transport starts with connected false, and no call of connect(),
\* send() or disconnect(), directly or through the wrapper, changes what
\* its accessors address, port, username, password, tls and ssl return: they
\* return the values given at construction in every reachable state.
C20_AccessorsConstant ==
    /\ ~server.connected /\ ~easy.connected
    /\ [][/\ Accessors(server)' = Accessors(server)
          /\ Accessors(easy)' = Accessors(easy)]_vars

\* C20 happens: the transport constructed as in the test suite has been
\* connected and disconnected and its accessors return the values given.
C20_Witness ==
    /\ OnServer("disconnect") /\ last.pre /\ last.ret = "True"
    /\ Accessors(server) =
           <<"smtp.test.com", 587, "hacker", "whatever", TRUE, FALSE>>
    /\ ~server.connected

\* C21 as stated: connect() returns True when no step fails and False when
\* a step fails.
C21_ConnectReturnsBoolean ==
    OnServer("connect") =>
        /\ last.env.failAt = "none" => last.ret = "True"
        /\ last.env.failAt # "none" => last.ret = "False"

\* The names of the library calls the last call made, in order.
Commands == [i \in DOMAIN last.io |-> last.io[i].cmd]

\* The steps a successful connect() of the transport srv is to make.
Steps(srv) ==
    <<"open", "ehlo">>
        \o (IF srv.tls THEN <<"starttls", "ehlo">> ELSE <<>>)
        \o (IF srv.username # "" /\ srv.password # "" THEN <<"login">> ELSE <<>>)

\* What the session of srv is to be opened with.
OpenArgs(srv) ==
    <<IF srv.ssl THEN "SMTP_SSL" ELSE "SMTP", srv.address>>
        \o (IF srv.port # 0 THEN <<srv.port>> ELSE <<>>)

\* C22: a connect() in which no step fails opens the session (SMTP_SSL iff
\* ssl is set, with the port iff one is configured), greets, then iff tls is
\* set upgrades with STARTTLS and greets again, then iff username and
\* password are both non-empty logs in with them, all on the handle it
\* keeps, in exactly this order and with no other call, and connected is
\* true afterwards. A connect() in which a step fails makes the steps up to
\* the failing one, in the same order, and does not set connected. So the
\* login never precedes the STARTTLS upgrade.
C22_ConnectStepOrder ==
    /\ (OnServer("connect") /\ last.env.failAt = "none") =>
          /\ Commands = Steps(server)
          /\ last.io[1].args = OpenArgs(server)
          /\ \A i \in DOMAIN last.io : last.io[i].h = server.smtp
          /\ \A i \in Made("login") :
                 last.io[i].args = <<server.username, server.password>>
          /\ server.connected
    /\ (OnServer("connect") /\ last.env.failAt # "none") =>
          /\ Commands = SubSeq(Steps(server), 1, Len(last.io))
          /\ Len(last.io) <= Len(Steps(server))
          /\ server.connected = last.pre
    /\ (OnServer("connect") \/ OnEasy) =>
          \A i \in Made("login"), j \in Made("starttls") : j < i

\* C22 happens: a connect() with tls set and a user name and password makes
\* the five steps, the login last.
C22_Witness ==
    /\ OnServer("connect") /\ last.env.failAt = "none"
    /\ server.tls
    /\ Commands = <<"open", "ehlo", "starttls", "ehlo", "login">>
    /\ server.connected

\* C22 happens: with ssl set and no port the session is opened as SMTP_SSL
\* without a port.
C22_WitnessSsl ==
    /\ OnServer("connect") /\ last.env.failAt = "none"
    /\ last.io[1].args = <<"SMTP_SSL", "smtp.test.com">>
    /\ server.connected

\* C23: whenever connected is true the transport holds the handle of a
\* session that one of its connect() calls opened, and every sendmail and
\* close call of send() and disconnect() is made on such a handle, never on
\* a missing one; the same holds of the wrapper's transport.
C23_ConnectedHasHandle ==
    /\ server.connected =>
          /\ server.smtp \in DOMAIN sessions
          /\ sessions[server.smtp].by = "server"
    /\ easy.connected =>
          /\ easy.smtp \in DOMAIN sessions
          /\ sessions[easy.smtp].by = "easy"
    /\ \A i \in Made("sendmail") \cup Made("close") :
          /\ last.io[i].h \in DOMAIN sessions
          /\ sessions[last.io[i].h].by = last.obj

\* C23 happens: a send() on a connected transport makes its sendmail call
\* on the handle a connect() assigned.
C23_Witness ==
    /\ OnServer("send") /\ last.pre
    /\ Made("sendmail") # {}
    /\ last.io[1].h = server.smtp
    /\ server.smtp \in DOMAIN sessions

====
